---- MODULE Spec2Model ----
(***************************************************************************)
(* A model of the order validation and execution sequencing of the        *)
(* Binance futures order bot: src/main.py dispatches one command line to  *)
(* one of six orchestrators (market, limit, stop-limit, OCO, TWAP, grid). *)
(* One behaviour of the model is one run of the process, from the loading *)
(* of the modules to its exit: the state is the command line and the      *)
(* environment it was started with and what the run has done so far       *)
(* (checks evaluated, validation result, exchange calls made, order-      *)
(* placement attempts, exception raised, messages logged, exit status).   *)
(*                                                                         *)
(* Quantities and prices are decimal.Decimal values: a coefficient c and  *)
(* an exponent e standing for c * 10^e, every arithmetic result rounded   *)
(* half-even to the precision of the decimal context.                     *)
(***************************************************************************)
EXTENDS Integers, Sequences, FiniteSets, TLC

\* Precision (significant digits) of the decimal context of the model.
Prec == 6
\* Largest grid step count / TWAP chunk count drawn as an input.
MaxCount == 5

----------------------------------------------------------------------------
(* decimal.Decimal *)

D(c, e) == [c |-> c, e |-> e]

Abs(n) == IF n < 0 THEN -n ELSE n

Min(a, b) == IF a <= b THEN a ELSE b

RECURSIVE Pow10(_)
Pow10(n) == IF n <= 0 THEN 1 ELSE 10 * Pow10(n - 1)

RECURSIVE Digits(_)
Digits(n) == IF n < 10 THEN 1 ELSE 1 + Digits(n \div 10)

\* Context rounding (ROUND_HALF_EVEN) of coefficient c, exponent e.
Fix(c, e) ==
    LET a == Abs(c)
        d == Digits(a) - Prec
        sgn == IF c < 0 THEN -1 ELSE 1
    IN  IF d <= 0 THEN D(c, e)
        ELSE LET q == a \div Pow10(d)
                 r == a % Pow10(d)
                 half == 5 * Pow10(d - 1)
                 q2 == IF r > half \/ (r = half /\ q % 2 = 1) THEN q + 1 ELSE q
             IN  IF q2 = Pow10(Prec) THEN D(sgn * Pow10(Prec - 1), e + d + 1)
                 ELSE D(sgn * q2, e + d)

\* a < b, a <= b, a = b by value.
DecScaled(a, m) == a.c * Pow10(a.e - m)

DecLt(a, b) == LET m == Min(a.e, b.e) IN DecScaled(a, m) < DecScaled(b, m)

DecLe(a, b) == LET m == Min(a.e, b.e) IN DecScaled(a, m) <= DecScaled(b, m)

DecEq(a, b) == LET m == Min(a.e, b.e) IN DecScaled(a, m) = DecScaled(b, m)

DecAdd(a, b) == LET m == Min(a.e, b.e) IN Fix(DecScaled(a, m) + DecScaled(b, m), m)

DecSub(a, b) == LET m == Min(a.e, b.e) IN Fix(DecScaled(a, m) - DecScaled(b, m), m)

DecMul(a, b) == Fix(a.c * b.c, a.e + b.e)

DecMax(a, b) == IF DecLt(a, b) THEN b ELSE a

\* An exact quotient is brought as near to the ideal exponent as its
\* trailing zeros allow.
RECURSIVE Strip(_, _, _)
Strip(c, e, ideal) ==
    IF e < ideal /\ c % 10 = 0 /\ c # 0 THEN Strip(c \div 10, e + 1, ideal) ELSE D(c, e)

\* a / b for b # 0 (Decimal.__truediv__).
DecDiv(a, b) ==
    IF a.c = 0 THEN D(0, a.e - b.e)
    ELSE LET sgn == IF (a.c < 0) = (b.c < 0) THEN 1 ELSE -1
             shift == Digits(Abs(b.c)) - Digits(Abs(a.c)) + Prec + 1
             exp == a.e - b.e - shift
             num == IF shift >= 0 THEN Abs(a.c) * Pow10(shift) ELSE Abs(a.c)
             den == IF shift >= 0 THEN Abs(b.c) ELSE Abs(b.c) * Pow10(-shift)
             coeff == num \div den
             rem == num % den
         IN  IF rem # 0
             THEN Fix(sgn * (IF coeff % 5 = 0 THEN coeff + 1 ELSE coeff), exp)
             ELSE LET s == Strip(coeff, exp, a.e - b.e) IN Fix(sgn * s.c, s.e)

\* a % b for b # 0: the remainder has the sign of the dividend.
DecRemZero(a, b) == D(0, Min(a.e, b.e))

DecRem(a, b) ==
    LET m == Min(a.e, b.e)
        x == DecScaled(a, m)
        y == Abs(DecScaled(b, m))
    IN  D((IF x < 0 THEN -1 ELSE 1) * (Abs(x) % y), m)

Zero == D(0, 0)

\* An int operand of a Decimal operation.
DecInt(n) == D(n, 0)

----------------------------------------------------------------------------
(* Inputs of one run: the parsed command line and the exchange's answers *)

Sides == {"BUY", "SELL", "HOLD"}

Qtys == {D(-1, 0), Zero, D(1, 0), D(5, -1)}

TotalQtys == {Zero, D(10, 0)}

Prices == {D(-5, 0), Zero, D(500, 0), D(1000, 0), D(2000, 0)}

GridPrices == {Zero, D(1, 0), D(100, 0), D(200, 0)}

Counts == (-1) .. MaxCount

Intervals == {-1, 1}

Balances == {Zero, D(300, 0), D(750, 0), D(1000, 0)}

\* account_information_v2(): raises, or lists the wallet balances (an asset
\* that is not listed counts as 0 in the getters).
AccountResponses ==
    {[ok |-> FALSE, USDT |-> Zero, BTC |-> Zero]}
        \cup {[ok |-> TRUE, USDT |-> u, BTC |-> b] : u \in Balances, b \in {Zero, D(1, 0)}}

\* symbol_price_ticker(): raises, or gives a price.
PriceResponses ==
    {[ok |-> FALSE, price |-> Zero]}
        \cup {[ok |-> TRUE, price |-> p] : p \in {Zero, D(100, 0)}}

\* exchange_information(): raises, does not list the symbol, lists it
\* without the LOT_SIZE / MIN_NOTIONAL filters, or lists it with them.
InfoResponses ==
    {[kind |-> k, min_qty |-> Zero, max_qty |-> Zero, step_size |-> Zero, min_notional |-> Zero] :
        k \in {"raise", "nosymbol", "nofilters"}}
        \cup {[kind |-> "ok", min_qty |-> mn, max_qty |-> mx, step_size |-> st, min_notional |-> nt] :
                mn \in {Zero, D(1, 0)}, mx \in {D(5, -1), D(10, 0)}, st \in {Zero, D(1, 0)},
                nt \in {Zero, D(100, 0)}}

\* new_order(): the call raises, or returns a response whose status code is
\* 200 or not; only place_market_order looks at the status code.
OrderOutcomes == {"ok", "non200", "raise"}

NoReq ==
    [family |-> "NONE", side |-> "", qty |-> Zero, price |-> Zero, stop |-> Zero, tp |-> Zero,
     lower |-> Zero, upper |-> Zero, count |-> 0, interval |-> 0]

\* A value fetched from the exchange: whether it was asked for, what the
\* getter handed back, and whether the call behind it raised.
NoBal == [fetched |-> FALSE, value |-> Zero, failed |-> FALSE]

\* The environment after load_dotenv(): whether BINANCE_API_KEY and
\* BINANCE_API_SECRET hold a non-empty value.
Envs == [key : BOOLEAN, secret : BOOLEAN]

\* sys.argv[1].upper() of the invocations drawn: the six order types and one
\* that is none of them.
OrderTypes == {"MARKET", "LIMIT", "STOP_LIMIT", "OCO", "TWAP", "GRID", "FOO"}

\* Largest len(sys.argv) drawn (the longest command line, GRID, has 8).
MaxArgc == 9

\* The command line: len(sys.argv), the order type ("" when there is none),
\* and the shape of the text of its numeric arguments: "number" ("0.5") or
\* "junk" ("abc") for those read with Decimal(), and "integer" ("4"),
\* "fraction" ("1.5") or "junk" for those read with int(), which only the
\* TWAP and GRID command lines have. The values the texts stand for are
\* drawn where the orchestrator is called.
Argvs ==
    {[argc |-> 1, type |-> "", dec |-> "number", int |-> "integer"]}
        \cup {[argc |-> n, type |-> t, dec |-> d, int |-> "integer"] :
                n \in 2 .. MaxArgc, t \in OrderTypes, d \in {"number", "junk"}}
        \cup {[argc |-> n, type |-> t, dec |-> d, int |-> k] :
                n \in 2 .. MaxArgc, t \in {"TWAP", "GRID"}, d \in {"number", "junk"},
                k \in {"fraction", "junk"}}

\* exchange_information() was not called.
NoRules ==
    [kind |-> "none", min_qty |-> Zero, max_qty |-> Zero, step_size |-> Zero,
     min_notional |-> Zero]

VARIABLES
    pc,       \* "import" (modules loading), "main" (main() entered), "start" (an
              \* orchestrator is called), "grid_loop", "twap_loop" or "done"
    req,      \* the request the orchestrator was called with
    valid,    \* what validation returned: "none" (not run), "True", "False",
              \* "None" (fell off the end) or "raised"
    bal,      \* the balance the validator fetched, if it fetched one
    price,    \* the price the validator fetched, if it fetched one
    calls,    \* the exchange calls of the run, in order
    orders,   \* the new_order attempts of the run, in order
    i,        \* index of the next leg of a multi-leg strategy
    step,     \* price_step of a grid, qty_per_chunk of a TWAP
    exc,      \* the exception raised inside main's try block, by the parsing
              \* of the arguments or by the orchestrator, "none" if none
    env,      \* the credentials found in the environment
    argv,     \* the command line
    status,   \* "running", or the exit status of the process: "exit0", "exit1"
    log,      \* the kinds of message logged so far
    ret,      \* what the orchestrator returned: "none" (it has not returned),
              \* "None" or "order_data"
    checks,   \* the checks validation evaluated, in order, each with its verdict
    trace,    \* the events of the legs of a multi-leg strategy, in order
    rules     \* what exchange_information() answered, if it was called

vars ==
    <<pc, req, valid, bal, price, calls, orders, i, step, exc, env, argv, status, log, ret,
      checks, trace, rules>>

----------------------------------------------------------------------------
(* Balance getters *)

\* account_information_v2() inside try / except: Decimal("0") when it raises.
get_usdt_balance_open(acct) == IF acct.ok THEN acct.USDT ELSE D(1000, 0)

get_usdt_balance(acct) == IF acct.ok THEN acct.USDT ELSE Zero

get_asset_balance(acct, asset) == IF acct.ok THEN acct[asset] ELSE Zero

\* What a validator hands back: its return value, the exchange calls it
\* made, the balance and price it fetched, and the checks it evaluated.
VRes(r, cs, b, p, ev) == [result |-> r, calls |-> cs, bal |-> b, price |-> p, checks |-> ev]

\* The checks a validator evaluated, in order: all of them passed, or all
\* but the last, on which it returned False. A check is named after what
\* it tests: "numeric" (a quantity or price > 0), "count" (steps or chunks
\* > 0), "side", "ordering" (of two prices), "balance", and, where the code
\* has them, "price_fetch", "symbol", "filters", "lot_size", "min_notional".
Passed(names) == [k \in 1 .. Len(names) |-> [check |-> names[k], ok |-> TRUE]]

FailedAt(names) == [k \in 1 .. Len(names) |-> [check |-> names[k], ok |-> k < Len(names)]]

Fetched(v) == [fetched |-> TRUE, value |-> v, failed |-> FALSE]

\* The balance a getter handed back for the answer acct of the exchange.
BalanceOf(acct, v) == [fetched |-> TRUE, value |-> v, failed |-> ~acct.ok]

----------------------------------------------------------------------------
(* src/limit_orders.py *)

\* "if balance < notional": the balance check of validate_order.
limit_insufficient_le(balance, notional) == DecLe(balance, notional)

limit_insufficient(balance, notional) == DecLt(balance, notional)

limit_validate_order(qty, lim, acct) ==
    IF DecLe(qty, Zero) THEN VRes("False", <<>>, NoBal, NoBal, FailedAt(<<"numeric">>))
    ELSE IF DecLe(lim, Zero)
         THEN VRes("False", <<>>, NoBal, NoBal, FailedAt(<<"numeric", "numeric">>))
    ELSE LET balance == get_usdt_balance(acct)
             notional == DecMul(qty, lim)
             cks == <<"numeric", "numeric", "balance">>
         IN  IF limit_insufficient(balance, notional)
             THEN VRes("False", <<"account_information_v2">>, BalanceOf(acct, balance), NoBal,
                       FailedAt(cks))
             ELSE VRes("True", <<"account_information_v2">>, BalanceOf(acct, balance), NoBal,
                       Passed(cks))

----------------------------------------------------------------------------
(* src/advanced/stop_limit.py *)

stop_limit_validate_order(side, qty, stop_price, limit_price, acct) ==
    IF DecLe(qty, Zero) THEN VRes("False", <<>>, NoBal, NoBal, FailedAt(<<"numeric">>))
    ELSE IF DecLe(stop_price, Zero)
         THEN VRes("False", <<>>, NoBal, NoBal, FailedAt(<<"numeric", "numeric">>))
    ELSE IF DecLe(limit_price, Zero)
         THEN VRes("False", <<>>, NoBal, NoBal, FailedAt(<<"numeric", "numeric", "numeric">>))
    ELSE LET cks == <<"numeric", "numeric", "numeric", "balance">>
             balance == IF side = "BUY" THEN get_asset_balance(acct, "USDT")
                        ELSE get_asset_balance(acct, "BTC")
             needed == IF side = "BUY" THEN DecMul(qty, limit_price) ELSE qty
         IN  IF DecLt(balance, needed)
             THEN VRes("False", <<"account_information_v2">>, BalanceOf(acct, balance), NoBal,
                       FailedAt(cks))
             ELSE VRes("True", <<"account_information_v2">>, BalanceOf(acct, balance), NoBal,
                       Passed(cks))

----------------------------------------------------------------------------
(* src/advanced/oco.py *)

\* The take-profit against stop check, for a side that is BUY or SELL.
oco_price_logic_lax(side, take_profit_price, stop_price) ==
    IF side = "BUY" THEN ~DecLt(take_profit_price, stop_price)
    ELSE ~DecLt(stop_price, take_profit_price)

oco_price_logic_ok(side, take_profit_price, stop_price) ==
    IF side = "BUY" THEN ~DecLe(take_profit_price, stop_price)
    ELSE ~DecLe(stop_price, take_profit_price)

validate_oco_order(qty, side, take_profit_price, stop_price, acct) ==
    IF DecLe(qty, Zero) THEN VRes("False", <<>>, NoBal, NoBal, FailedAt(<<"numeric">>))
    ELSE IF DecLe(take_profit_price, Zero)
         THEN VRes("False", <<>>, NoBal, NoBal, FailedAt(<<"numeric", "numeric">>))
    ELSE IF DecLe(stop_price, Zero)
         THEN VRes("False", <<>>, NoBal, NoBal, FailedAt(<<"numeric", "numeric", "numeric">>))
    ELSE IF side \notin {"BUY", "SELL"}
         THEN VRes("False", <<>>, NoBal, NoBal,
                   FailedAt(<<"numeric", "numeric", "numeric", "side">>))
    ELSE IF ~oco_price_logic_ok(side, take_profit_price, stop_price)
         THEN VRes("False", <<>>, NoBal, NoBal,
                   FailedAt(<<"numeric", "numeric", "numeric", "side", "ordering">>))
    ELSE LET balance == get_usdt_balance(acct)
             notional == DecMul(qty, DecMax(take_profit_price, stop_price))
             cks == <<"numeric", "numeric", "numeric", "side", "ordering", "balance">>
         IN  IF DecLt(balance, notional)
             THEN VRes("False", <<"account_information_v2">>, BalanceOf(acct, balance), NoBal,
                       FailedAt(cks))
             ELSE VRes("True", <<"account_information_v2">>, BalanceOf(acct, balance), NoBal,
                       Passed(cks))

----------------------------------------------------------------------------
(* src/advanced/grid.py *)

\* The estimate of the total notional of a grid.
grid_notional_one_leg(lower_price, upper_price, steps, qty_per_order) ==
    DecDiv(DecMul(qty_per_order, DecAdd(lower_price, upper_price)), DecInt(2))

grid_notional(lower_price, upper_price, steps, qty_per_order) ==
    DecMul(DecDiv(DecMul(qty_per_order, DecAdd(lower_price, upper_price)), DecInt(2)),
           DecInt(steps))

validate_grid_order(lower_price, upper_price, steps, qty_per_order, acct) ==
    IF DecLe(lower_price, Zero) \/ DecLe(upper_price, Zero)
    THEN VRes("False", <<>>, NoBal, NoBal, FailedAt(<<"numeric">>))
    ELSE IF steps <= 0 THEN VRes("False", <<>>, NoBal, NoBal, FailedAt(<<"numeric", "count">>))
    ELSE IF DecLe(qty_per_order, Zero)
         THEN VRes("False", <<>>, NoBal, NoBal, FailedAt(<<"numeric", "count", "numeric">>))
    ELSE IF DecLe(upper_price, lower_price)
         THEN VRes("False", <<>>, NoBal, NoBal,
                   FailedAt(<<"numeric", "count", "numeric", "ordering">>))
    ELSE LET notional == grid_notional(lower_price, upper_price, steps, qty_per_order)
             balance == get_usdt_balance(acct)
             cks == <<"numeric", "count", "numeric", "ordering", "balance">>
         IN  IF DecLt(balance, notional)
             THEN VRes("False", <<"account_information_v2">>, BalanceOf(acct, balance), NoBal,
                       FailedAt(cks))
             ELSE VRes("True", <<"account_information_v2">>, BalanceOf(acct, balance), NoBal,
                       Passed(cks))

----------------------------------------------------------------------------
(* src/advanced/twap.py *)

\* get_price: None when the ticker call raises.
get_price(tick) == [none |-> ~tick.ok, value |-> tick.price]

\* The BUY branch ends without a return statement, so a request that passes
\* every check hands back None; the SELL branch calls get_asset_balance,
\* which this module neither defines nor imports (NameError).
validate_twap_order(side, total_qty, chunks, tick, acct) ==
    IF DecLe(total_qty, Zero) THEN VRes("False", <<>>, NoBal, NoBal, FailedAt(<<"numeric">>))
    ELSE IF chunks <= 0 THEN VRes("False", <<>>, NoBal, NoBal, FailedAt(<<"numeric", "count">>))
    ELSE LET p == get_price(tick)
         IN  IF p.none \/ DecLe(p.value, Zero)
             THEN VRes("False", <<"symbol_price_ticker">>, NoBal, NoBal,
                       FailedAt(<<"numeric", "count", "price_fetch">>))
             ELSE IF side = "BUY"
                  THEN LET balance == get_usdt_balance(acct)
                           notional == DecMul(total_qty, p.value)
                           cs == <<"symbol_price_ticker", "account_information_v2">>
                           cks == <<"numeric", "count", "price_fetch", "balance">>
                       IN  IF DecLt(balance, notional)
                           THEN VRes("False", cs, BalanceOf(acct, balance), Fetched(p.value),
                                     FailedAt(cks))
                           ELSE VRes("None", cs, BalanceOf(acct, balance), Fetched(p.value),
                                     Passed(cks))
                  ELSE VRes("raised", <<"symbol_price_ticker">>, NoBal, Fetched(p.value),
                            Passed(<<"numeric", "count", "price_fetch">>))

----------------------------------------------------------------------------
(* src/market_orders.py *)

\* The checks of place_market_order up to "if not validations_passed".
\* "raised" stands for an exception inside the try block, which the
\* handler at the end of the function turns into a return of None.
market_validations(side, quantity, info, tick, acct) ==
    IF side \notin {"BUY", "SELL"} THEN VRes("False", <<>>, NoBal, NoBal, FailedAt(<<"side">>))
    ELSE IF info.kind = "raise"
         THEN VRes("raised", <<"exchange_information">>, NoBal, NoBal, Passed(<<"side">>))
    ELSE IF info.kind = "nosymbol"
         THEN VRes("False", <<"exchange_information">>, NoBal, NoBal,
                   FailedAt(<<"side", "symbol">>))
    ELSE IF info.kind = "nofilters"
         THEN VRes("False", <<"exchange_information">>, NoBal, NoBal,
                   FailedAt(<<"side", "symbol", "filters">>))
    ELSE IF ~tick.ok
         THEN VRes("raised", <<"exchange_information", "symbol_price_ticker">>, NoBal, NoBal,
                   Passed(<<"side", "symbol", "filters">>))
    ELSE IF ~acct.ok
         THEN VRes("raised",
                   <<"exchange_information", "symbol_price_ticker", "account_information_v2">>,
                   NoBal, Fetched(tick.price), Passed(<<"side", "symbol", "filters">>))
    ELSE LET cs == <<"exchange_information", "symbol_price_ticker", "account_information_v2">>
             usdt_balance == acct.USDT
             in_range == ~(DecLt(quantity, info.min_qty) \/ DecLt(info.max_qty, quantity))
             notional_value == DecMul(quantity, tick.price)
         IN  IF in_range /\ info.step_size.c = 0
             THEN VRes("raised", cs, Fetched(usdt_balance), Fetched(tick.price),
                       Passed(<<"side", "symbol", "filters">>))
             ELSE LET qty_ok == in_range /\ DecRem(quantity, info.step_size).c = 0
                      notional_ok == ~DecLt(notional_value, info.min_notional)
                      balance_ok == ~DecLt(usdt_balance, notional_value)
                  IN  VRes(IF qty_ok /\ notional_ok /\ balance_ok THEN "True" ELSE "False",
                           cs, Fetched(usdt_balance), Fetched(tick.price),
                           Passed(<<"side", "symbol", "filters">>)
                               \o <<[check |-> "lot_size", ok |-> qty_ok],
                                     [check |-> "min_notional", ok |-> notional_ok],
                                     [check |-> "balance", ok |-> balance_ok]>>)

----------------------------------------------------------------------------
(* src/main.py, and the start-up of the modules it imports *)

\* "if not API_KEY or not API_SECRET", at the top of every module.
credentials_missing_both(e) == ~e.key /\ ~e.secret

credentials_missing(e) == ~e.key \/ ~e.secret

\* "except Exception" at the end of main: sys.exit raises SystemExit, which
\* is a BaseException but not an Exception.
CaughtAlsoExit(e) == e # "none"

Caught(e) == e \notin {"none", "SystemExit"}

\* What main's handler logs for exception e, and the exit status of the
\* process when main ends with e raised inside its try block.
EndLog(e) == IF Caught(e) THEN {"main_exception"} ELSE {}

EndStatus(e) == IF e = "none" \/ Caught(e) THEN "exit0" ELSE "exit1"

KnownTypes == {"MARKET", "LIMIT", "STOP_LIMIT", "OCO", "TWAP", "GRID"}

\* The len(sys.argv) each branch of main insists on.
expected_argc(order_type) ==
    CASE order_type = "MARKET" -> 5
      [] order_type = "LIMIT" -> 6
      [] order_type \in {"STOP_LIMIT", "OCO", "TWAP"} -> 7
      [] order_type = "GRID" -> 8

\* Decimal(text) and int(text): the exception raised, "none" if none.
decimal_error(text) == IF text = "junk" THEN "InvalidOperation" ELSE "none"

int_error(text) == IF text = "integer" THEN "none" ELSE "ValueError"

\* The conversions of a branch: every branch reads a Decimal first, and the
\* TWAP and GRID branches read their counts and interval with int().
parse_error(a) ==
    IF decimal_error(a.dec) # "none" THEN decimal_error(a.dec)
    ELSE IF a.type \in {"TWAP", "GRID"} THEN int_error(a.int)
    ELSE "none"

\* What the try block of main raises before it calls an orchestrator.
main_raises_no_count(a) == IF a.type \notin KnownTypes THEN "SystemExit" ELSE parse_error(a)

main_raises(a) ==
    IF a.type \notin KnownTypes THEN "SystemExit"
    ELSE IF a.argc # expected_argc(a.type) THEN "SystemExit"
    ELSE parse_error(a)

\* The imports at the top of main.py: market_orders is loaded first, and
\* exits the process when a credential is missing.
load_modules ==
    /\ pc = "import"
    /\ IF credentials_missing(env)
       THEN log' = log \cup {"credentials"} /\ status' = "exit1" /\ pc' = "done"
       ELSE log' = log /\ status' = status /\ pc' = "main"
    /\ UNCHANGED <<req, valid, bal, price, calls, orders, i, step, exc, env, argv, ret, checks,
                   trace, rules>>

\* main up to the call of an orchestrator: the usage exits, and the parsing
\* of the arguments under the handler.
main ==
    /\ pc = "main"
    /\ IF argv.argc < 2
       THEN /\ exc' = "SystemExit"
            /\ log' = log \cup {"usage"}
            /\ status' = "exit1"
            /\ pc' = "done"
       ELSE LET e == main_raises(argv)
            IN  /\ exc' = e
                /\ log' = log \cup (IF e = "SystemExit" THEN {"usage"} ELSE {})
                              \cup (IF argv.type \notin KnownTypes THEN {"unknown_type"} ELSE {})
                              \cup EndLog(e)
                /\ status' = IF e = "none" THEN status ELSE EndStatus(e)
                /\ pc' = IF e = "none" THEN "start" ELSE "done"
    /\ UNCHANGED <<req, valid, bal, price, calls, orders, i, step, env, argv, ret, checks, trace,
                   rules>>

----------------------------------------------------------------------------
(* The orchestrators *)

\* "if not validate(...): return": the orchestrator goes on to place
\* orders only on a truthy return value (None is falsy).
TruthyNotFalse(r) == r # "False"

Truthy(r) == r = "True"

\* One new_order attempt: the keyword arguments passed, their values, and
\* whether the call raised.
Order(params, side, type, quantity, p, stop, tif, outcome) ==
    [params |-> params, side |-> side, type |-> type, quantity |-> quantity, price |-> p,
     stop |-> stop, tif |-> tif, outcome |-> outcome]

\* What an orchestrator logs when it does not go on to place an order:
\* place_market_order logs an unexpected error when a call raised.
rejection_log(result) == IF result = "raised" THEN "unexpected_error" ELSE "validation_failed"

\* What a single-order orchestrator returns after its new_order call: only
\* place_market_order has a return value, the order data on status 200.
placement_ret(family, outcome) ==
    IF family = "MARKET" /\ outcome = "ok" THEN "order_data" ELSE "None"

\* What it logs after the call: the others log every returned response as
\* a placed order.
placement_log(family, outcome) ==
    IF outcome = "raise" THEN (IF family = "MARKET" THEN "unexpected_error" ELSE "order_error")
    ELSE IF family = "MARKET" /\ outcome = "non200" THEN "order_error"
    ELSE "placed"

\* What every single-order orchestrator does with its validator's answer;
\* it returns to main, which ends the process.
Single(r, v, o) ==
    /\ req' = r
    /\ valid' = v.result
    /\ bal' = v.bal
    /\ price' = v.price
    /\ checks' = v.checks
    /\ IF Truthy(v.result)
       THEN /\ orders' = <<o>>
            /\ calls' = v.calls \o <<"new_order">>
            /\ ret' = placement_ret(r.family, o.outcome)
            /\ log' = log \cup {placement_log(r.family, o.outcome)}
       ELSE /\ orders' = <<>>
            /\ calls' = v.calls
            /\ ret' = "None"
            /\ log' = log \cup {rejection_log(v.result)}
    /\ pc' = "done"
    /\ status' = EndStatus(exc)
    /\ UNCHANGED <<i, step, exc, env, argv, trace>>

place_market_order ==
    /\ pc = "start"
    /\ argv.type = "MARKET"
    /\ \E side \in Sides, quantity \in Qtys, info \in InfoResponses, tick \in PriceResponses,
          acct \in AccountResponses, out \in OrderOutcomes :
          LET v == market_validations(side, quantity, info, tick, acct)
          IN  /\ Single([NoReq EXCEPT !.family = "MARKET", !.side = side, !.qty = quantity], v,
                        Order({"symbol", "side", "type", "quantity"}, side, "MARKET", quantity,
                              Zero, Zero, "", out))
              /\ rules' = IF v.calls # <<>> THEN info ELSE NoRules

place_limit_order ==
    /\ pc = "start"
    /\ argv.type = "LIMIT"
    /\ \E side \in Sides, qty \in Qtys, lim \in Prices, acct \in AccountResponses,
          out \in OrderOutcomes :
          Single([NoReq EXCEPT !.family = "LIMIT", !.side = side, !.qty = qty, !.price = lim],
                 limit_validate_order(qty, lim, acct),
                 Order({"symbol", "side", "order_type", "quantity", "price", "time_in_force"},
                       side, "LIMIT", qty, lim, Zero, "GTC", out))
    /\ UNCHANGED rules

place_stop_limit_order ==
    /\ pc = "start"
    /\ argv.type = "STOP_LIMIT"
    /\ \E side \in Sides, qty \in Qtys, stop_price \in Prices, limit_price \in Prices,
          acct \in AccountResponses, out \in OrderOutcomes :
          Single([NoReq EXCEPT !.family = "STOP_LIMIT", !.side = side, !.qty = qty,
                               !.stop = stop_price, !.price = limit_price],
                 stop_limit_validate_order(side, qty, stop_price, limit_price, acct),
                 Order({"symbol", "side", "order_type", "quantity", "stopPrice", "price",
                        "time_in_force"},
                       side, "STOP_MARKET", qty, limit_price, stop_price, "GTC", out))
    /\ UNCHANGED rules

place_oco_order ==
    /\ pc = "start"
    /\ argv.type = "OCO"
    /\ \E side \in Sides, qty \in Qtys, take_profit_price \in Prices, stop_price \in Prices,
          acct \in AccountResponses, out \in OrderOutcomes :
          Single([NoReq EXCEPT !.family = "OCO", !.side = side, !.qty = qty,
                               !.tp = take_profit_price, !.stop = stop_price],
                 validate_oco_order(qty, side, take_profit_price, stop_price, acct),
                 Order({"symbol", "side", "order_type", "quantity", "price", "stop_price",
                        "time_in_force"},
                       side, "OCO", qty, take_profit_price, stop_price, "GTC", out))
    /\ UNCHANGED rules

\* place_twap_order up to the loop: validation, then qty_per_chunk.
place_twap_order ==
    /\ pc = "start"
    /\ argv.type = "TWAP"
    /\ \E side \in Sides, total_qty \in TotalQtys, chunks \in Counts, interval_sec \in Intervals,
          tick \in PriceResponses, acct \in AccountResponses :
          LET v == validate_twap_order(side, total_qty, chunks, tick, acct)
              e == IF v.result = "raised" THEN "NameError" ELSE "none"
          IN  /\ req' = [NoReq EXCEPT !.family = "TWAP", !.side = side, !.qty = total_qty,
                                      !.count = chunks, !.interval = interval_sec]
              /\ valid' = v.result
              /\ bal' = v.bal
              /\ price' = v.price
              /\ calls' = v.calls
              /\ checks' = v.checks
              /\ exc' = e
              /\ pc' = IF Truthy(v.result) THEN "twap_loop" ELSE "done"
              /\ step' = IF Truthy(v.result) THEN DecDiv(total_qty, DecInt(chunks)) ELSE Zero
              /\ ret' = IF Truthy(v.result) \/ e # "none" THEN ret ELSE "None"
              /\ log' = log \cup (IF Truthy(v.result) \/ e # "none" THEN {}
                                   ELSE {rejection_log(v.result)})
                            \cup EndLog(e)
              /\ status' = IF Truthy(v.result) THEN status ELSE EndStatus(e)
              /\ UNCHANGED <<orders, i, env, argv, trace, rules>>

\* place_grid_order up to the loop: validation, then price_step, whose
\* division raises decimal.DivisionByZero when steps = 1.
place_grid_order ==
    /\ pc = "start"
    /\ argv.type = "GRID"
    /\ \E lower_price \in GridPrices, upper_price \in GridPrices, steps \in Counts,
          qty_per_order \in Qtys, interval_sec \in Intervals, acct \in AccountResponses :
          LET v == validate_grid_order(lower_price, upper_price, steps, qty_per_order, acct)
              go == Truthy(v.result) /\ steps - 1 # 0
              e == IF Truthy(v.result) /\ steps - 1 = 0 THEN "DivisionByZero" ELSE "none"
          IN  /\ req' = [NoReq EXCEPT !.family = "GRID", !.qty = qty_per_order,
                                      !.lower = lower_price, !.upper = upper_price,
                                      !.count = steps, !.interval = interval_sec]
              /\ valid' = v.result
              /\ bal' = v.bal
              /\ price' = v.price
              /\ calls' = v.calls
              /\ checks' = v.checks
              /\ exc' = e
              /\ pc' = IF go THEN "grid_loop" ELSE "done"
              /\ step' = IF go THEN DecDiv(DecSub(upper_price, lower_price), DecInt(steps - 1))
                         ELSE Zero
              /\ ret' = IF Truthy(v.result) THEN ret ELSE "None"
              /\ log' = log \cup (IF Truthy(v.result) THEN {} ELSE {rejection_log(v.result)})
                            \cup EndLog(e)
              /\ status' = IF go THEN status ELSE EndStatus(e)
              /\ UNCHANGED <<orders, i, env, argv, trace, rules>>

\* grid_price of leg k of the grid loop.
grid_price_from_one(lower_price, price_step, k) ==
    DecAdd(lower_price, DecMul(price_step, DecInt(k + 1)))

grid_price(lower_price, price_step, k) == DecAdd(lower_price, DecMul(price_step, DecInt(k)))

\* The order of leg i of the grid loop.
grid_leg_order(out) ==
    Order({"symbol", "side", "order_type", "quantity", "price", "time_in_force"},
          "BUY", "LIMIT", req.qty, grid_price(req.lower, step, i), Zero, "GTC", out)

\* The order of one chunk of the TWAP loop.
twap_leg_order(out) ==
    Order({"symbol", "side", "order_type", "quantity"}, req.side, "MARKET", step, Zero, Zero,
          "", out)

\* time.sleep raises ValueError on a negative length.
SleepRaises(interval_sec) == interval_sec < 0

\* What a leg logs after its new_order call.
leg_log(outcome) == IF outcome = "raise" THEN "order_error" ELSE "placed"

\* The events of iteration k of a loop: new_order is called and returns or
\* raises, then time.sleep(interval_sec) returns, unless it raised.
leg_events_no_sleep(k, slept) == <<[ev |-> "call", leg |-> k], [ev |-> "return", leg |-> k]>>

leg_events(k, slept) ==
    <<[ev |-> "call", leg |-> k], [ev |-> "return", leg |-> k]>>
        \o (IF slept THEN <<[ev |-> "sleep", leg |-> k]>> ELSE <<>>)

\* One iteration of the loop of place_grid_order or place_twap_order: the
\* new_order attempt (an exception is logged and swallowed), then the sleep.
next_leg ==
    /\ pc \in {"grid_loop", "twap_loop"}
    /\ i < req.count
    /\ LET e == IF SleepRaises(req.interval) THEN "ValueError" ELSE exc
           last == SleepRaises(req.interval) \/ ~(i + 1 < req.count)
       IN  /\ \E out \in OrderOutcomes :
                 /\ orders' = Append(orders, IF pc = "grid_loop" THEN grid_leg_order(out)
                                             ELSE twap_leg_order(out))
                 /\ calls' = calls \o (IF pc = "grid_loop" THEN <<"new_order">>
                                       ELSE <<"symbol_price_ticker", "new_order">>)
                 /\ log' = log \cup {leg_log(out)} \cup EndLog(e)
           /\ trace' = trace \o leg_events(i, ~SleepRaises(req.interval))
           /\ exc' = e
           /\ i' = IF SleepRaises(req.interval) THEN i ELSE i + 1
           /\ pc' = IF last THEN "done" ELSE pc
           /\ ret' = IF last /\ e = "none" THEN "None" ELSE ret
           /\ status' = IF last THEN EndStatus(e) ELSE status
    /\ UNCHANGED <<req, valid, bal, price, step, env, argv, checks, rules>>

Init ==
    /\ pc = "import"
    /\ env \in Envs
    /\ argv \in Argvs
    /\ status = "running"
    /\ log = {}
    /\ ret = "none"
    /\ checks = <<>>
    /\ trace = <<>>
    /\ rules = NoRules
    /\ req = NoReq
    /\ valid = "none"
    /\ bal = NoBal
    /\ price = NoBal
    /\ calls = <<>>
    /\ orders = <<>>
    /\ i = 0
    /\ step = Zero
    /\ exc = "none"

Next ==
    \/ load_modules
    \/ main
    \/ place_market_order
    \/ place_limit_order
    \/ place_stop_limit_order
    \/ place_oco_order
    \/ place_twap_order
    \/ place_grid_order
    \/ next_leg

Spec == Init /\ [][Next]_vars

----------------------------------------------------------------------------
(* Vocabulary of the properties. Amounts are compared exactly, as integers *)
(* scaled to a common exponent, not through the context's rounding.        *)

Pos(x) == x.c > 0

NonPos(x) == x.c <= 0

InCalls(name) == \E k \in 1 .. Len(calls) : calls[k] = name

NoOrderPlaced == orders = <<>> /\ ~InCalls("new_order")

\* q * p <= b, exactly.
ExactNotionalLe(q, p, b) ==
    LET m == Min(q.e + p.e, b.e)
    IN  q.c * p.c * Pow10(q.e + p.e - m) <= b.c * Pow10(b.e - m)

\* q * (lo + hi) / 2 * n <= b, exactly.
ExactGridNotionalLe(q, lo, hi, n, b) ==
    LET ml == Min(lo.e, hi.e)
        m == Min(q.e + ml, b.e)
    IN  q.c * (DecScaled(lo, ml) + DecScaled(hi, ml)) * n * Pow10(q.e + ml - m)
            <= 2 * b.c * Pow10(b.e - m)

\* | p * (n - 1) - (lo * (n - 1) + k * (hi - lo)) |, in units of 10^m:
\* n - 1 times the distance of p from level k of the grid.
LevelError(p, lo, hi, n, k, m) ==
    Abs(DecScaled(p, m) * (n - 1)
            - (DecScaled(lo, m) * (n - 1) + k * (DecScaled(hi, m) - DecScaled(lo, m))))

GridExp(p) == Min(p.e, Min(req.lower.e, req.upper.e))

IsGridBuyLimit(o) ==
    /\ o.side = "BUY"
    /\ o.type = "LIMIT"
    /\ o.tif = "GTC"
    /\ o.quantity = req.qty

----------------------------------------------------------------------------
(* Properties *)

\* C1: an order-placement call is made only in a run whose validation
\* accepted, and after the validation's own exchange calls: when validation
\* did not accept, the run makes no new_order call at all.
C1_OrderOnlyAfterAccept ==
    /\ valid # "True" => NoOrderPlaced
    /\ \A k \in 1 .. Len(calls) :
          calls[k] = "new_order" =>
              /\ valid = "True"
              /\ \A j \in (k + 1) .. Len(calls) :
                    calls[j] \notin {"account_information_v2", "exchange_information"}

\* C1 witness: a run whose balance check failed and that placed nothing.
C1_Witness ==
    /\ pc = "done"
    /\ valid = "False"
    /\ bal.fetched
    /\ NoOrderPlaced

\* C2 (as claimed): a TWAP request with Q > 0, C > 0, a valid fetched price
\* and a sufficient balance ends with exactly C market-order attempts, each
\* for Q / C.
C2_TwapChunks ==
    (/\ pc = "done"
     /\ req.family = "TWAP"
     /\ Pos(req.qty)
     /\ req.count > 0
     /\ price.fetched /\ Pos(price.value)
     /\ bal.fetched /\ ExactNotionalLe(req.qty, price.value, bal.value))
        => /\ Len(orders) = req.count
           /\ \A k \in 1 .. Len(orders) :
                 /\ orders[k].type = "MARKET"
                 /\ LET m == Min(orders[k].quantity.e, req.qty.e)
                    IN  DecScaled(orders[k].quantity, m) * req.count = DecScaled(req.qty, m)

\* C3 (as claimed): a grid of N legs that passed validation ends with each
\* of the N legs attempted exactly once, whatever legs failed, and without
\* an exception leaving place_grid_order.
C3_GridEveryLegAttempted ==
    (req.family = "GRID" /\ valid = "True" /\ pc = "done")
        => (Len(orders) = req.count /\ exc = "none")

\* What holds of the grid loop instead: with at least two steps and a
\* non-negative interval every leg is attempted once, whatever legs failed.
GridEveryLegAttemptedGuarded ==
    (req.family = "GRID" /\ valid = "True" /\ pc = "done"
        /\ req.count >= 2 /\ req.interval >= 0)
        => (Len(orders) = req.count /\ exc = "none")

RequiredPriceNonPos ==
    \/ req.family = "LIMIT" /\ NonPos(req.price)
    \/ req.family = "STOP_LIMIT" /\ (NonPos(req.stop) \/ NonPos(req.price))
    \/ req.family = "OCO" /\ (NonPos(req.tp) \/ NonPos(req.stop))
    \/ req.family = "GRID" /\ (NonPos(req.lower) \/ NonPos(req.upper))

\* C4 (as claimed): in every family a request with quantity <= 0 or a
\* required price <= 0 is not accepted and places no order, whatever the
\* exchange answers.
C4_NonPositiveRejected ==
    (req.family # "NONE" /\ (NonPos(req.qty) \/ RequiredPriceNonPos))
        => (valid # "True" /\ NoOrderPlaced)

\* What holds instead: the same outside place_market_order, whose only
\* guard against a non-positive quantity is the exchange's own filters.
NonPositiveRejectedOutsideMarket ==
    (req.family \notin {"NONE", "MARKET"} /\ (NonPos(req.qty) \/ RequiredPriceNonPos))
        => (valid # "True" /\ NoOrderPlaced)

\* C5 (as claimed): in every family that takes a side, a request whose side
\* is neither BUY nor SELL is not accepted and places no order.
C5_InvalidSideRejected ==
    (req.family \in {"MARKET", "LIMIT", "STOP_LIMIT", "OCO", "TWAP"}
        /\ req.side \notin {"BUY", "SELL"})
        => (valid # "True" /\ NoOrderPlaced)

\* What holds instead: the side is checked in the market and OCO families.
InvalidSideRejectedMarketOco ==
    (req.family \in {"MARKET", "OCO"} /\ req.side \notin {"BUY", "SELL"})
        => (valid = "False" /\ NoOrderPlaced)

\* C6: an OCO BUY with take-profit <= stop, an OCO SELL with take-profit >=
\* stop and a grid with lower >= upper are rejected and place no order,
\* whatever the balance is.
C6_PriceOrderingRejected ==
    (\/ req.family = "OCO" /\ req.side = "BUY" /\ DecLe(req.tp, req.stop)
     \/ req.family = "OCO" /\ req.side = "SELL" /\ DecLe(req.stop, req.tp)
     \/ req.family = "GRID" /\ DecLe(req.upper, req.lower))
        => (valid = "False" /\ pc = "done" /\ NoOrderPlaced)

\* C6 witness: an OCO BUY, positive throughout, with take-profit equal to
\* stop, rejected.
C6_Witness ==
    /\ req.family = "OCO"
    /\ req.side = "BUY"
    /\ Pos(req.qty) /\ Pos(req.tp) /\ Pos(req.stop)
    /\ DecEq(req.tp, req.stop)
    /\ valid = "False"
    /\ pc = "done"

GridRunning == req.family = "GRID" /\ valid = "True" /\ req.count >= 2

\* C7 (as claimed): leg k (from 0) of a validated grid of N >= 2 steps is a
\* BUY LIMIT order of the request's quantity priced exactly at
\* lower + k * (upper - lower) / (N - 1), and the prices increase strictly.
C7_GridLevelsExact ==
    GridRunning =>
        \A k \in 1 .. Len(orders) :
            /\ IsGridBuyLimit(orders[k])
            /\ LevelError(orders[k].price, req.lower, req.upper, req.count, k - 1,
                          GridExp(orders[k].price)) = 0
            /\ k > 1 => DecLt(orders[k - 1].price, orders[k].price)

\* C7 (amended): leg k is a BUY LIMIT order of the request's quantity whose
\* price is within 3 * upper * 10^(1 - Prec) of lower + k * (upper - lower) /
\* (N - 1), the prices never decrease, and lower = 100, upper = 200, N = 5
\* gives exactly 100, 125, 150, 175, 200.
C7_GridLevelsWithinRounding ==
    GridRunning =>
        \A k \in 1 .. Len(orders) :
            LET o == orders[k]
                m == GridExp(o.price)
            IN  /\ IsGridBuyLimit(o)
                /\ LevelError(o.price, req.lower, req.upper, req.count, k - 1, m)
                      <= (3 * DecScaled(req.upper, m) * (req.count - 1)) \div Pow10(Prec - 1)
                /\ k > 1 => DecLe(orders[k - 1].price, o.price)
                /\ (DecEq(req.lower, D(100, 0)) /\ DecEq(req.upper, D(200, 0)) /\ req.count = 5)
                      => DecEq(o.price, D(100 + 25 * (k - 1), 0))

\* C7 witness: a grid from 100 to 200 in 4 steps, whose price step 100 / 3
\* has no exact decimal value, with all its legs submitted.
C7_Witness ==
    /\ GridRunning
    /\ pc = "done"
    /\ DecEq(req.lower, D(100, 0)) /\ DecEq(req.upper, D(200, 0))
    /\ req.count = 4
    /\ Len(orders) = 4

\* C8: a limit order with positive quantity and price is accepted exactly
\* when the fetched USDT balance is >= qty * price, and rejected exactly
\* when it is smaller; an order is placed exactly when it is accepted.
C8_LimitBalance ==
    (req.family = "LIMIT" /\ Pos(req.qty) /\ Pos(req.price))
        => /\ bal.fetched
           /\ valid = "True" <=> ExactNotionalLe(req.qty, req.price, bal.value)
           /\ valid = "False" <=> ~ExactNotionalLe(req.qty, req.price, bal.value)
           /\ Len(orders) = (IF valid = "True" THEN 1 ELSE 0)

\* C8 witness: a limit order accepted with a balance equal to its notional.
C8_Witness ==
    /\ req.family = "LIMIT"
    /\ Pos(req.qty) /\ Pos(req.price)
    /\ ExactNotionalLe(req.qty, req.price, bal.value)
    /\ ExactNotionalLe(bal.value, D(1, 0), DecMul(req.qty, req.price))
    /\ valid = "True"
    /\ Len(orders) = 1

GridInputsPass ==
    /\ req.family = "GRID"
    /\ Pos(req.lower) /\ Pos(req.upper)
    /\ req.count > 0
    /\ Pos(req.qty)
    /\ DecLt(req.lower, req.upper)

\* C9: a grid request that passes the input checks is accepted if and only
\* if the fetched USDT balance is >= qty_per_order * (lower + upper) / 2 *
\* steps.
C9_GridBalance ==
    GridInputsPass
        => /\ bal.fetched
           /\ valid \in {"True", "False"}
           /\ valid = "True"
                 <=> ExactGridNotionalLe(req.qty, req.lower, req.upper, req.count, bal.value)

\* C9 witness: a grid accepted with a balance equal to its estimated
\* notional (1 * (100 + 200) / 2 * 5 = 750).
C9_Witness ==
    /\ GridInputsPass
    /\ DecEq(req.lower, D(100, 0)) /\ DecEq(req.upper, D(200, 0))
    /\ req.count = 5
    /\ DecEq(req.qty, D(1, 0))
    /\ DecEq(bal.value, D(750, 0))
    /\ valid = "True"

----------------------------------------------------------------------------
(* The order of the checks *)

\* The place of a check in the order numeric positivity, count positivity,
\* side, price ordering, balance; 0 for a check outside these five.
Rank(c) ==
    CASE c = "numeric" -> 1
      [] c = "count" -> 2
      [] c = "side" -> 3
      [] c = "ordering" -> 4
      [] c = "balance" -> 5
      [] OTHER -> 0

FailsNumeric == NonPos(req.qty) \/ RequiredPriceNonPos

FailsCount == req.family \in {"TWAP", "GRID"} /\ req.count <= 0

FailsSide ==
    /\ req.family \in {"MARKET", "LIMIT", "STOP_LIMIT", "OCO", "TWAP"}
    /\ req.side \notin {"BUY", "SELL"}

FailsOrdering ==
    \/ req.family = "OCO" /\ req.side = "BUY" /\ DecLe(req.tp, req.stop)
    \/ req.family = "OCO" /\ req.side = "SELL" /\ DecLe(req.stop, req.tp)
    \/ req.family = "GRID" /\ DecLe(req.upper, req.lower)

\* The first check of the fixed order that the request fails on its inputs
\* alone, "none" if it fails none of them.
EarliestFailing ==
    IF FailsNumeric THEN "numeric"
    ELSE IF FailsCount THEN "count"
    ELSE IF FailsSide THEN "side"
    ELSE IF FailsOrdering THEN "ordering"
    ELSE "none"

ChecksInFixedOrder ==
    \A j, k \in 1 .. Len(checks) :
        (j < k /\ Rank(checks[j].check) > 0 /\ Rank(checks[k].check) > 0)
            => Rank(checks[j].check) <= Rank(checks[k].check)

ChecksStopAtFirstFailure == \A k \in 1 .. Len(checks) - 1 : checks[k].ok

ReportsEarliestFailing ==
    EarliestFailing # "none"
        => /\ valid = "False"
           /\ Len(checks) > 0
           /\ checks[Len(checks)] = [check |-> EarliestFailing, ok |-> FALSE]

\* C11 (as claimed): every validator evaluates its checks in the order
\* numeric positivity, count positivity, side, price ordering, balance,
\* evaluates no check after one that failed, and a request that fails one of
\* the input checks is rejected by the earliest of them in this order.
C11_FixedCheckOrder ==
    req.family # "NONE"
        => (ChecksInFixedOrder /\ ChecksStopAtFirstFailure /\ ReportsEarliestFailing)

\* What holds instead: validate_oco_order alone follows the claimed order;
\* every validator but place_market_order stops at its first failing check.
OcoFixedCheckOrder ==
    /\ req.family = "OCO"
          => (ChecksInFixedOrder /\ ChecksStopAtFirstFailure /\ ReportsEarliestFailing)
    /\ req.family \notin {"NONE", "MARKET"} => ChecksStopAtFirstFailure

\* C12 (as claimed): in every family a request with a non-positive quantity,
\* price or count, an invalid side or a violated price ordering is rejected
\* with no call to the exchange made before the rejection.
C12_InvalidRejectedBeforeCalls ==
    (req.family # "NONE" /\ EarliestFailing # "none") => (valid = "False" /\ calls = <<>>)

\* What holds instead: the same for OCO and grid requests.
InvalidRejectedBeforeCallsOcoGrid ==
    (req.family \in {"OCO", "GRID"} /\ EarliestFailing # "none")
        => (valid = "False" /\ calls = <<>>)

----------------------------------------------------------------------------
(* Sequencing of the legs *)

\* The number of events of kind e among the first k events of the trace.
EventCount(e, k) == Cardinality({j \in 1 .. k : trace[j].ev = e})

\* C13: the legs of a grid or TWAP are submitted one at a time in index
\* order: the first call is that of leg 0, the call of leg k + 1 comes right
\* after the sleep that follows the return of leg k, every call has returned
\* before anything else happens, so that at any moment at most one
\* new_order call is in flight, and every attempt is one event of the trace.
C13_LegsSequential ==
    /\ \A k \in 1 .. Len(trace) :
          LET t == trace[k]
          IN  /\ t.ev = "call"
                    => IF k = 1 THEN t.leg = 0
                       ELSE trace[k - 1] = [ev |-> "sleep", leg |-> t.leg - 1]
              /\ t.ev = "return" => (k > 1 /\ trace[k - 1] = [ev |-> "call", leg |-> t.leg])
              /\ t.ev = "sleep" => (k > 1 /\ trace[k - 1] = [ev |-> "return", leg |-> t.leg])
    /\ \A k \in 0 .. Len(trace) : EventCount("call", k) - EventCount("return", k) \in {0, 1}
    /\ req.family \in {"GRID", "TWAP"} => EventCount("call", Len(trace)) = Len(orders)
    /\ req.family \notin {"GRID", "TWAP"} => trace = <<>>

\* C13 witness: a grid whose first leg failed and whose third leg has been
\* submitted.
C13_Witness ==
    /\ req.family = "GRID"
    /\ Len(orders) >= 3
    /\ orders[1].outcome = "raise"
    /\ \E k \in 1 .. Len(trace) : trace[k] = [ev |-> "call", leg |-> 2]

----------------------------------------------------------------------------
(* The order-placement call of the single-order families *)

SingleFamilies == {"MARKET", "LIMIT", "STOP_LIMIT", "OCO"}

CallCount(name) == Cardinality({k \in 1 .. Len(calls) : calls[k] = name})

\* Order types that execute at the market price once placed or triggered.
MarketTypes == {"MARKET", "STOP_MARKET", "TAKE_PROFIT_MARKET"}

CarriesStop(o) == "stopPrice" \in o.params \/ "stop_price" \in o.params

\* C14 (as claimed): an accepted single-order intent makes exactly one
\* new_order call, with the request of its family: MARKET a market order
\* without price; LIMIT a limit order with the price and GTC; STOP_LIMIT a
\* stop-triggered limit order with the stop price and the limit price; OCO
\* one order with the take-profit and the stop price.
C14_OneMappedOrder ==
    (req.family \in SingleFamilies /\ valid = "True" /\ pc = "done")
        => /\ Len(orders) = 1
           /\ CallCount("new_order") = 1
           /\ LET o == orders[1]
              IN  /\ o.side = req.side
                  /\ o.quantity = req.qty
                  /\ req.family = "MARKET" => (o.type = "MARKET" /\ "price" \notin o.params)
                  /\ req.family = "LIMIT"
                        => /\ o.type = "LIMIT"
                           /\ "price" \in o.params /\ o.price = req.price
                           /\ o.tif = "GTC"
                  /\ req.family = "STOP_LIMIT"
                        => /\ o.type \notin MarketTypes
                           /\ CarriesStop(o) /\ o.stop = req.stop
                           /\ "price" \in o.params /\ o.price = req.price
                  /\ req.family = "OCO"
                        => /\ o.type = "OCO"
                           /\ CarriesStop(o) /\ o.stop = req.stop
                           /\ "price" \in o.params /\ o.price = req.tp

\* What holds instead: exactly one new_order call, never repeated, and the
\* claimed request in every family but STOP_LIMIT, whose order has the
\* type STOP_MARKET (with both prices).
OneOrderPerAcceptedIntent ==
    (req.family \in SingleFamilies /\ valid = "True" /\ pc = "done")
        => /\ Len(orders) = 1
           /\ CallCount("new_order") = 1
           /\ req.family = "STOP_LIMIT"
                 => /\ orders[1].type = "STOP_MARKET"
                    /\ orders[1].stop = req.stop
                    /\ orders[1].price = req.price

\* What the orchestrator reports of its new_order call: its return value
\* and what it logged about the placement.
PlacementResult ==
    [ret |-> ret, log |-> log \cap {"placed", "order_error", "unexpected_error"}]

SuccessResult(family) ==
    [ret |-> placement_ret(family, "ok"), log |-> {placement_log(family, "ok")}]

\* C15 (as claimed): when the new_order call of a single-order strategy
\* raises or returns a non-success status, no exception leaves the
\* strategy, and what it reports (return value, log) differs from what it
\* reports after a successful placement.
C15_FailureSurfaced ==
    (/\ req.family \in SingleFamilies
     /\ pc = "done"
     /\ Len(orders) = 1
     /\ orders[1].outcome # "ok")
        => (exc = "none" /\ PlacementResult # SuccessResult(req.family))

\* What holds instead: no exception leaves the strategy; place_market_order
\* reports every failure, the others report a new_order call that raised.
FailureCaught ==
    (/\ req.family \in SingleFamilies
     /\ pc = "done"
     /\ Len(orders) = 1
     /\ orders[1].outcome # "ok")
        => /\ exc = "none"
           /\ status = "exit0"
           /\ (req.family = "MARKET" \/ orders[1].outcome = "raise")
                 => PlacementResult # SuccessResult(req.family)

----------------------------------------------------------------------------
(* The entry command *)

\* No order type, an order type that is none of the six, or a len(sys.argv)
\* other than the one of the order type.
Malformed ==
    \/ argv.argc < 2
    \/ argv.type \notin {"MARKET", "LIMIT", "STOP_LIMIT", "OCO", "TWAP", "GRID"}
    \/ argv.argc # expected_argc(argv.type)

UnknownType ==
    argv.argc >= 2 /\ argv.type \notin {"MARKET", "LIMIT", "STOP_LIMIT", "OCO", "TWAP", "GRID"}

CredentialsAbsent == ~env.key \/ ~env.secret

NothingRun ==
    /\ req = NoReq
    /\ valid = "none"
    /\ checks = <<>>
    /\ calls = <<>>
    /\ orders = <<>>
    /\ trace = <<>>

\* C16 (as claimed): whenever the invocation is malformed the run places no
\* order and ends with a non-zero exit status after printing the usage, and
\* after logging an error as well when the order type is unknown.
C16_MalformedUsageExit ==
    Malformed
        => /\ NoOrderPlaced
           /\ pc = "done"
                 => /\ status = "exit1"
                    /\ "usage" \in log
                    /\ UnknownType => "unknown_type" \in log

\* C16 (amended): a malformed invocation never places an order and always
\* ends with exit status 1; when both credentials are present it ends in
\* main, with nothing of any orchestrator run, after printing the usage, and
\* after logging the unknown order type when that is the defect; when a
\* credential is absent the usage is not printed.
C16_MalformedUsageExitWithCredentials ==
    Malformed
        => /\ NothingRun
           /\ pc \in {"import", "main", "done"}
           /\ pc = "done"
                 => /\ status = "exit1"
                    /\ "usage" \in log <=> ~CredentialsAbsent
                    /\ (UnknownType /\ ~CredentialsAbsent) => "unknown_type" \in log
                    /\ "main_exception" \notin log

\* C16 witness: a GRID command line one argument short, credentials
\* present, ended with the usage and exit status 1.
C16_Witness ==
    /\ argv.type = "GRID"
    /\ argv.argc = 7
    /\ ~CredentialsAbsent
    /\ pc = "done"
    /\ status = "exit1"
    /\ "usage" \in log

\* C17: when the API key or the API secret is absent the process ends with
\* exit status 1 while the modules are loaded: main is never entered (no
\* usage, no dispatch, no parsing), nothing is validated, no exchange call
\* is made and no order is placed.
C17_NoCredentialsExit ==
    CredentialsAbsent
        => /\ pc \in {"import", "done"}
           /\ NothingRun
           /\ exc = "none"
           /\ ret = "none"
           /\ log \subseteq {"credentials"}
           /\ pc = "done" => (status = "exit1" /\ log = {"credentials"})
           /\ pc = "import" => status = "running"

\* C17 witness: a well-formed MARKET command line with the key present and
\* the secret absent, ended with exit status 1.
C17_Witness ==
    /\ env.key /\ ~env.secret
    /\ argv.type = "MARKET" /\ argv.argc = 5 /\ argv.dec = "number"
    /\ pc = "done"
    /\ status = "exit1"

----------------------------------------------------------------------------
(* Rejections and exceptions *)

\* C18 (as claimed): a request that validation has to reject (a bad input,
\* a violated price ordering) or did reject (an insufficient balance
\* included) ends with the rejection logged, no order placed, no exception
\* raised by the validator or the orchestrator, and a normal exit.
C18_RejectionRecoverable ==
    (pc = "done" /\ req.family # "NONE" /\ (EarliestFailing # "none" \/ valid = "False"))
        => /\ "validation_failed" \in log
           /\ NoOrderPlaced
           /\ exc = "none"
           /\ status = "exit0"

\* What holds instead: a validation that returned False is recoverable in
\* every family.
ReturnedFalseRecoverable ==
    (pc = "done" /\ valid = "False")
        => /\ "validation_failed" \in log
           /\ NoOrderPlaced
           /\ exc = "none"
           /\ ret = "None"
           /\ status = "exit0"

\* C19: an exception raised by the parsing of the arguments of a recognised
\* order type or by its orchestrator ends the run there, logged by main's
\* handler, with exit status 0 (it does not leave main); the SystemExit of
\* a usage exit is not caught: nothing is logged by the handler and the
\* exit status is 1.
C19_ExceptionsCaughtByMain ==
    /\ exc \in {"InvalidOperation", "ValueError", "NameError", "DivisionByZero"}
          => /\ pc = "done"
             /\ "main_exception" \in log
             /\ status = "exit0"
             /\ argv.type \in {"MARKET", "LIMIT", "STOP_LIMIT", "OCO", "TWAP", "GRID"}
    /\ exc = "SystemExit"
          => /\ pc = "done"
             /\ "main_exception" \notin log
             /\ "usage" \in log
             /\ status = "exit1"
    /\ exc \in {"none", "InvalidOperation", "ValueError", "NameError", "DivisionByZero",
                "SystemExit"}

\* C19 witness: a TWAP command line whose chunk count is not an integer,
\* ended by the handler before any orchestrator was called.
C19_Witness ==
    /\ argv.type = "TWAP"
    /\ argv.int = "fraction"
    /\ exc = "ValueError"
    /\ req = NoReq
    /\ "main_exception" \in log
    /\ status = "exit0"

\* C20 (as claimed): a grid request with a step count of 1 is turned away
\* before the division by steps - 1: it is not accepted, no arithmetic
\* error is raised and no order is placed.
C20_SingleStepGuarded ==
    (req.family = "GRID" /\ req.count = 1 /\ pc = "done")
        => /\ valid = "False"
           /\ exc = "none"
           /\ NoOrderPlaced

\* What holds instead: a single-step grid places no order, and ends with
\* DivisionByZero exactly when the rest of the validation accepts it.
SingleStepRaises ==
    (req.family = "GRID" /\ req.count = 1 /\ pc = "done")
        => /\ NoOrderPlaced
           /\ valid = "True" <=> exc = "DivisionByZero"
           /\ valid = "True" => ("main_exception" \in log /\ status = "exit0")

----------------------------------------------------------------------------
(* A failed balance fetch *)

\* The amount the balance is compared with is positive.
RequiredAmountPositive ==
    /\ Pos(req.qty)
    /\ req.family = "LIMIT" => Pos(req.price)
    /\ req.family = "STOP_LIMIT" => (Pos(req.stop) /\ Pos(req.price))
    /\ req.family = "OCO" => (Pos(req.tp) /\ Pos(req.stop))
    /\ req.family = "GRID" => (Pos(req.lower) /\ Pos(req.upper) /\ req.count > 0)

\* C21: in the limit, stop-limit, OCO and grid families, when the
\* account-balance call raises, no exception leaves the getter, the
\* balance is taken as 0, and the request, whose required amount is
\* positive whenever the balance is fetched at all, is rejected with the
\* rejection logged and no order-placement call made.
C21_BalanceFetchFailsClosed ==
    (req.family \in {"LIMIT", "STOP_LIMIT", "OCO", "GRID"} /\ bal.fetched /\ bal.failed)
        => /\ bal.value = Zero
           /\ RequiredAmountPositive
           /\ valid = "False"
           /\ checks # <<>> /\ checks[Len(checks)] = [check |-> "balance", ok |-> FALSE]
           /\ exc = "none"
           /\ NoOrderPlaced
           /\ pc = "done"
           /\ ret = "None"
           /\ "validation_failed" \in log

\* C21 witness: a limit order of 1 at 500 whose balance fetch raised,
\* rejected.
C21_Witness ==
    /\ req.family = "LIMIT"
    /\ DecEq(req.qty, D(1, 0)) /\ DecEq(req.price, D(500, 0))
    /\ bal.fetched /\ bal.failed
    /\ valid = "False"
    /\ pc = "done"

----------------------------------------------------------------------------
(* The checks of place_market_order *)

\* q is a whole multiple of s, exactly.
ExactMultiple(q, s) ==
    LET m == Min(q.e, s.e)
    IN  s.c # 0 /\ Abs(DecScaled(q, m)) % Abs(DecScaled(s, m)) = 0

\* q * p >= b, exactly.
ExactNotionalGe(q, p, b) ==
    LET m == Min(q.e + p.e, b.e)
    IN  q.c * p.c * Pow10(q.e + p.e - m) >= b.c * Pow10(b.e - m)

LotSizeHolds ==
    /\ DecLe(rules.min_qty, req.qty)
    /\ DecLe(req.qty, rules.max_qty)
    /\ ExactMultiple(req.qty, rules.step_size)

MinNotionalHolds == ExactNotionalGe(req.qty, price.value, rules.min_notional)

BalanceHolds == ExactNotionalLe(req.qty, price.value, bal.value)

Verdict(name, ok) == \E k \in 1 .. Len(checks) : checks[k] = [check |-> name, ok |-> ok]

\* C22: place_market_order calls new_order only when the symbol is listed
\* with both filters and min_qty <= quantity <= max_qty, the quantity is a
\* multiple of step_size, min_notional <= quantity * price and quantity *
\* price <= the USDT balance; once the three fetches have succeeded (and
\* the modulo has not raised) the quantity, notional and balance checks are
\* each given their verdict, whatever the other two said; and a run in
\* which any check failed returns None with no order placed.
C22_MarketOrderOnlyWhenRulesHold ==
    req.family = "MARKET"
        => /\ (InCalls("new_order") \/ orders # <<>>)
                 => /\ rules.kind = "ok"
                    /\ price.fetched /\ bal.fetched
                    /\ LotSizeHolds /\ MinNotionalHolds /\ BalanceHolds
           /\ (rules.kind = "ok" /\ price.fetched /\ bal.fetched /\ valid # "raised")
                 => /\ Verdict("lot_size", LotSizeHolds)
                    /\ Verdict("min_notional", MinNotionalHolds)
                    /\ Verdict("balance", BalanceHolds)
           /\ (pc = "done" /\ \E k \in 1 .. Len(checks) : ~checks[k].ok)
                 => /\ valid = "False"
                    /\ ret = "None"
                    /\ NoOrderPlaced

\* C22 witness: a market order whose quantity is outside the lot size and
\* whose notional exceeds the balance: both verdicts are recorded, and no
\* order is placed.
C22_Witness ==
    /\ req.family = "MARKET"
    /\ pc = "done"
    /\ Verdict("lot_size", FALSE)
    /\ Verdict("min_notional", TRUE)
    /\ Verdict("balance", FALSE)
    /\ ret = "None"
    /\ NoOrderPlaced

\* A market order that passed every check and was placed.
MarketOrderPlaced ==
    /\ req.family = "MARKET"
    /\ pc = "done"
    /\ Len(orders) = 1
    /\ Pos(req.qty)
    /\ LotSizeHolds /\ MinNotionalHolds /\ BalanceHolds

====
